---- MODULE Spec2Model ----
(***************************************************************************)
(* are-we-biome-yet: the run of `analyze <path>` (config extraction with   *)
(* its flat -> legacy -> parent-directory fallback, the fetch of the Biome *)
(* rule sources, the compatibility analysis) and the pure functions it is  *)
(* built from.                                                             *)
(*                                                                         *)
(* JavaScript strings on which the code does character work (startsWith,   *)
(* substring, sort, split, regular expressions) are sequences of one-      *)
(* character strings; CharCode gives the UTF-16 code unit that the default *)
(* Array.prototype.sort compares.                                          *)
(***************************************************************************)
EXTENDS Integers, Sequences, FiniteSets, TLC

VARIABLES
    pc,                 \* position of the run
    pathExists,         \* existsSync(absolutePath)
    json,               \* options.json
    absolutePath,       \* path.resolve(filePath), a sequence of path segments
    fsConfigs,          \* the config files on disk: a set of <<dir, file>>
    spawned,            \* the execSync invocations made so far, in order
    output,             \* stdout of the last successful execSync
    foundConfig,        \* result of findESLintConfigInParents
    eslintConfig,       \* JSON.parse(output)
    enabledRules,       \* extractEnabledRules(eslintConfig)
    urlIdx,             \* index in BIOME_SOURCES_URLS of the next url of the loop
    fetchLog,           \* outcome of every fetch started so far, in order
    allMappings,        \* fetchBiomeRules: allMappings
    allExclusiveRules,  \* fetchBiomeRules: allExclusiveRules
    sources,            \* fetchBiomeRules: sources
    biomeData,          \* the value fetchBiomeRules returned
    report,             \* what analyzeBiomeCompatibility returned (the emitted report)
    errors,             \* logger.error messages, in order
    exitCode,           \* process exit code
    stripIn,            \* the argument of a call of stripPluginPrefix
    stripOut,           \* what that call returned
    parseIn,            \* the content given to a call of parseBiomeMarkdown
    parseOut            \* what that call returned

vars == <<pc, pathExists, json, absolutePath, fsConfigs, spawned, output, foundConfig,
          eslintConfig, enabledRules, urlIdx, fetchLog, allMappings,
          allExclusiveRules, sources, biomeData, report, errors, exitCode,
          stripIn, stripOut, parseIn, parseOut>>

(***************************************************************************)
(* Strings                                                                 *)
(***************************************************************************)
NL == "\n"

\* the printable ASCII characters of codes 35 ("#") to 91 ("["), in code order
AsciiLow ==
    <<"#","$","%","&","'","(",")","*","+",",","-",".","/",
      "0","1","2","3","4","5","6","7","8","9",":",";","<","=",">","?",
      "@","A","B","C","D","E","F","G","H","I","J","K","L","M","N","O",
      "P","Q","R","S","T","U","V","W","X","Y","Z","[">>

\* the printable ASCII characters of codes 97 ("a") to 126 ("~"), in code order
AsciiHigh ==
    <<"a","b","c","d","e","f","g","h","i","j","k","l","m","n","o",
      "p","q","r","s","t","u","v","w","x","y","z","{","|","}","~">>

\* the UTF-16 code unit of a character (of the characters the strings here hold)
CharCode(c) ==
    IF c = NL THEN 10
    ELSE IF c = " " THEN 32
    ELSE IF c = "!" THEN 33
    ELSE IF c = "]" THEN 93
    ELSE IF c = "^" THEN 94
    ELSE IF c = "_" THEN 95
    ELSE IF \E i \in 1..Len(AsciiLow) : AsciiLow[i] = c
         THEN 34 + (CHOOSE i \in 1..Len(AsciiLow) : AsciiLow[i] = c)
    ELSE 96 + (CHOOSE i \in 1..Len(AsciiHigh) : AsciiHigh[i] = c)

\* String.prototype.startsWith
StartsWith(s, p) ==
    /\ Len(p) <= Len(s)
    /\ \A i \in 1..Len(p) : s[i] = p[i]

\* String.prototype.substring(n): the string without its first n characters
Substring(s, n) == SubSeq(s, n + 1, Len(s))

\* a < b for strings, as the default sort compares them: by code units,
\* a proper prefix before the longer string
RECURSIVE StrLess(_, _)
StrLess(a, b) ==
    IF b = <<>> THEN FALSE
    ELSE IF a = <<>> THEN TRUE
    ELSE IF a[1] = b[1] THEN StrLess(Tail(a), Tail(b))
    ELSE CharCode(a[1]) < CharCode(b[1])

\* insert x in the sorted list l, after the elements not greater than it
RECURSIVE SortInsert(_, _)
SortInsert(x, l) ==
    IF l = <<>> THEN <<x>>
    ELSE IF StrLess(x, l[1]) THEN <<x>> \o l
    ELSE <<l[1]>> \o SortInsert(x, Tail(l))

\* Array.prototype.sort() without a comparator, on an array of strings
RECURSIVE Sort(_)
Sort(l) ==
    IF l = <<>> THEN <<>>
    ELSE SortInsert(l[Len(l)], Sort(SubSeq(l, 1, Len(l) - 1)))

\* String.prototype.includes
Includes(s, sub) ==
    \E i \in 0..(Len(s) - Len(sub)) : \A k \in 1..Len(sub) : s[i + k] = sub[k]

\* the least element of a non-empty set of integers
Least(S) == CHOOSE i \in S : \A j \in S : i <= j

WhiteSpace == {" ", "\t", "\r", NL}

\* String.prototype.trim
RECURSIVE TrimStart(_)
TrimStart(s) ==
    IF s # <<>> /\ s[1] \in WhiteSpace THEN TrimStart(Tail(s)) ELSE s

RECURSIVE TrimEnd(_)
TrimEnd(s) ==
    IF s # <<>> /\ s[Len(s)] \in WhiteSpace THEN TrimEnd(SubSeq(s, 1, Len(s) - 1)) ELSE s

Trim(s) == TrimEnd(TrimStart(s))

\* String.prototype.split(sep) for a one-character separator: the pieces
\* between one separator (or the start) and the next (or the end)
Split(s, sep) ==
    LET seps == {i \in 1..Len(s) : s[i] = sep}
        nth(k) == CHOOSE i \in seps : Cardinality({j \in seps : j < i}) = k - 1
        from(k) == IF k = 1 THEN 1 ELSE nth(k - 1) + 1
        to(k) == IF k = Cardinality(seps) + 1 THEN Len(s) ELSE nth(k) - 1
    IN  [k \in 1..(Cardinality(seps) + 1) |-> SubSeq(s, from(k), to(k))]

\* the characters of s other than c: replace(/c/g, "")
RemoveAll(s, c) == SelectSeq(s, LAMBDA x : x # c)

\* the lower-case form of a character, for a case-insensitive match
ToLower(c) ==
    IF \E i \in 31..56 : AsciiLow[i] = c
    THEN AsciiHigh[(CHOOSE i \in 31..56 : AsciiLow[i] = c) - 30]
    ELSE c

\* Array.prototype.find, given the indices of the elements that satisfy the
\* callback: the index of the first of them, 0 if there is none
FindIndex(matching) == IF matching = {} THEN 0 ELSE Least(matching)

(***************************************************************************)
(* JavaScript values                                                       *)
(***************************************************************************)
\* string | null
Null == [null |-> TRUE, str |-> <<>>]
Some(s) == [null |-> FALSE, str |-> s]

\* truthiness of a string | null: null and "" are falsy
Truthy(v) == ~v.null /\ v.str # <<>>

\* A scalar: its type (typeof) and, by type, its value.
NumberValue(n) == [t |-> "number", n |-> n, s |-> ""]
StringValue(s) == [t |-> "string", n |-> 0, s |-> s]
Undefined == [t |-> "undefined", n |-> 0, s |-> ""]

\* A rule's configured value: an array of scalars (severity, then options),
\* or one scalar, kept as the only item.
ArrayValue(items) == [isArray |-> TRUE, items |-> items]
ScalarValue(v) == [isArray |-> FALSE, items |-> <<v>>]

\* array[0]
ElementZero(items) == IF items = <<>> THEN Undefined ELSE items[1]

(***************************************************************************)
(* commands/biome.ts: the markdown parser                                  *)
(***************************************************************************)
\* string.match(/\[([^\]]+)\]/)?.[1]: the text between the first "[" that is
\* followed by at least one character other than "]" and then by "]", and
\* that "]"; null when there is none
bracketMatch(s) ==
    LET closeAfter(p) == {q \in (p + 1)..Len(s) : s[q] = "]"}
        starts == {p \in 1..Len(s) :
                      /\ s[p] = "["
                      /\ closeAfter(p) # {}
                      /\ Least(closeAfter(p)) > p + 1}
    IN  IF starts = {} THEN Null
        ELSE LET p == Least(starts)
             IN  Some(SubSeq(s, p + 1, Least(closeAfter(p)) - 1))

RulesName == <<"R","u","l","e","s"," ","n","a","m","e">>

\* section.replace(/Rules name.*$/i, ""): section up to the first "rules name",
\* in any case
dropRulesName(section) ==
    LET lower(t) == [i \in 1..Len(t) |-> ToLower(t[i])]
        at == {i \in 0..(Len(section) - Len(RulesName)) :
                  \A k \in 1..Len(RulesName) :
                      ToLower(section[i + k]) = lower(RulesName)[k]}
    IN  IF at = {} THEN section ELSE SubSeq(section, 1, Least(at))

cleanSourceName(section) ==
    LET cleaned == Trim(RemoveAll(dropRulesName(section), "|"))
    IN  IF cleaned # <<>> THEN cleaned ELSE <<"E","S","L","i","n","t">>

\* a mapping or null
NoMapping == [null |-> TRUE, eslintRule |-> <<>>, biomeRule |-> <<>>, source |-> <<>>]

parseTableRow(line, section) ==
    LET trimmed == [i \in 1..Len(Split(line, "|")) |-> Trim(Split(line, "|")[i])]
        columns == SelectSeq(trimmed, LAMBDA col : Len(col) > 0)
    IN  IF Len(columns) < 2 THEN NoMapping
        ELSE LET eslintMatch == bracketMatch(columns[1])
                 biomeMatch == bracketMatch(columns[2])
             IN  IF ~Truthy(eslintMatch) \/ ~Truthy(biomeMatch) THEN NoMapping
                 ELSE IF \/ Includes(eslintMatch.str, RulesName)
                         \/ Includes(biomeMatch.str, RulesName)
                      THEN NoMapping
                 ELSE [null |-> FALSE,
                       eslintRule |-> eslintMatch.str,
                       biomeRule |-> biomeMatch.str,
                       source |-> cleanSourceName(section)]

\* the inner loop under "## Biome exclusive rules": the rules listed in
\* lines[j], lines[j + 1], ... up to the next line starting with "## "
RECURSIVE exclusiveFrom(_, _)
exclusiveFrom(lines, j) ==
    IF j > Len(lines) \/ StartsWith(lines[j], <<"#","#"," ">>) THEN <<>>
    ELSE LET listItem == Trim(lines[j])
             ruleMatch == bracketMatch(listItem)
         IN  (IF StartsWith(listItem, <<"-"," ","[">>) /\ Truthy(ruleMatch)
              THEN <<ruleMatch.str>> ELSE <<>>)
             \o exclusiveFrom(lines, j + 1)

\* one iteration of the loop over the lines: st is currentSection, inTable,
\* mappings and exclusiveRules before lines[i]
parseLine(lines, i, st) ==
    LET line == Trim(lines[i])
    IN  IF StartsWith(line, <<"#","#","#"," ">>)
        THEN [st EXCEPT !.currentSection = Trim(Substring(line, 4)),
                        !.inTable = FALSE]
        ELSE IF StartsWith(line, <<"#","#"," ","B","i","o","m","e"," ","e","x","c","l",
                                   "u","s","i","v","e"," ","r","u","l","e","s">>)
        THEN [st EXCEPT !.exclusiveRules = @ \o exclusiveFrom(lines, i + 1)]
        ELSE IF Includes(line, <<"|"," ","-","-","-","-"," ","|"," ","-","-","-","-"," ","|">>)
        THEN [st EXCEPT !.inTable = TRUE]
        ELSE IF /\ st.inTable
                /\ Includes(line, <<"|">>)
                /\ Includes(line, <<"[">>)
                /\ Includes(line, <<"]","(">>)
        THEN LET mapping == parseTableRow(line, st.currentSection)
             IN  IF ~mapping.null
                 THEN [st EXCEPT !.mappings =
                          Append(@, [eslintRule |-> mapping.eslintRule,
                                     biomeRule |-> mapping.biomeRule,
                                     source |-> mapping.source])]
                 ELSE st
        ELSE IF st.inTable /\ ~Includes(line, <<"|">>) /\ Len(line) > 0
        THEN [st EXCEPT !.inTable = FALSE]
        ELSE st

RECURSIVE parseLines(_, _, _)
parseLines(lines, i, st) ==
    IF i > Len(lines) THEN st
    ELSE parseLines(lines, i + 1, parseLine(lines, i, st))

parseBiomeMarkdown(content, sourceUrl) ==
    LET st == parseLines(Split(content, NL), 1,
                         [currentSection |-> <<>>, inTable |-> FALSE,
                          mappings |-> <<>>, exclusiveRules |-> <<>>])
    IN  [mappings |-> st.mappings,
         exclusiveRules |-> st.exclusiveRules,
         sources |-> <<sourceUrl>>]

(***************************************************************************)
(* commands/biome.ts: matching                                             *)
(***************************************************************************)
prefixes ==
    << <<"@","t","y","p","e","s","c","r","i","p","t","-","e","s","l","i","n","t","/">>,
       <<"@","n","e","x","t","/","n","e","x","t","/">>,
       <<"@","t","a","n","s","t","a","c","k","/","q","u","e","r","y","/">>,
       <<"r","e","a","c","t","/">>,
       <<"r","e","a","c","t","-","h","o","o","k","s","/">>,
       <<"i","m","p","o","r","t","/">>,
       <<"j","s","x","-","a","1","1","y","/">>,
       <<"d","r","i","z","z","l","e","/">>,
       <<"t","u","r","b","o","/">>,
       <<"p","r","e","t","t","i","e","r","/">>,
       <<"s","i","m","p","l","e","-","i","m","p","o","r","t","-","s","o","r","t","/">>,
       <<"p","r","e","f","e","r","-","f","u","n","c","t","i","o","n","-",
         "c","o","m","p","o","n","e","n","t","/">> >>

\* the for loop of stripPluginPrefix, from prefixes[i] on
RECURSIVE stripFrom(_, _)
stripFrom(name, i) ==
    IF i > Len(prefixes) THEN name
    ELSE IF StartsWith(name, prefixes[i]) THEN Substring(name, Len(prefixes[i]))
    ELSE stripFrom(name, i + 1)

\* a stripPluginPrefix that keeps stripping while a known prefix is in front
RECURSIVE stripRepeatedly(_)
stripRepeatedly(name) ==
    IF stripFrom(name, 1) = name THEN name ELSE stripRepeatedly(stripFrom(name, 1))

stripPluginPrefix(name) == stripFrom(name, 1)

\* a findBiomeEquivalent that tries the stripped id before the exact one
findBiomeEquivalentLooseFirst(eslintRule, data) ==
    LET exact == FindIndex({i \in 1..Len(data.mappings) : data.mappings[i].eslintRule = eslintRule})
        ruleWithoutPrefix == stripPluginPrefix(eslintRule)
        loose == FindIndex({i \in 1..Len(data.mappings) :
                               data.mappings[i].eslintRule = ruleWithoutPrefix})
    IN  IF ruleWithoutPrefix # eslintRule /\ loose # 0
        THEN Some(data.mappings[loose].biomeRule)
        ELSE IF exact # 0 THEN Some(data.mappings[exact].biomeRule)
        ELSE Null

findBiomeEquivalent(eslintRule, data) ==
    LET exact == FindIndex({i \in 1..Len(data.mappings) : data.mappings[i].eslintRule = eslintRule})
        ruleWithoutPrefix == stripPluginPrefix(eslintRule)
        loose == FindIndex({i \in 1..Len(data.mappings) :
                               data.mappings[i].eslintRule = ruleWithoutPrefix})
    IN  IF exact # 0 THEN Some(data.mappings[exact].biomeRule)
        ELSE IF ruleWithoutPrefix # eslintRule /\ loose # 0
             THEN Some(data.mappings[loose].biomeRule)
        ELSE Null

\* a compatibilityRate without the guard against an empty rule list
compatibilityRateUnguarded(nCompatible, nRules) ==
    [num |-> nCompatible * 100, den |-> nRules]

\* the value of compatibilityRate, a double, kept as the exact fraction num/den
compatibilityRate(nCompatible, nRules) ==
    IF nRules > 0 THEN [num |-> nCompatible * 100, den |-> nRules]
    ELSE [num |-> 0, den |-> 1]

\* one iteration of the loop of analyzeBiomeCompatibility: acc with eslintRule
\* classified
analyzeRule(eslintRule, data, acc) ==
    LET biomeEquivalent == findBiomeEquivalent(eslintRule, data)
        mapping == FindIndex({i \in 1..Len(data.mappings) :
                                 \/ data.mappings[i].eslintRule = eslintRule
                                 \/ data.mappings[i].eslintRule =
                                        stripPluginPrefix(eslintRule)})
        source == IF mapping # 0 /\ data.mappings[mapping].source # <<>>
                  THEN data.mappings[mapping].source
                  ELSE <<"U","n","k","n","o","w","n">>
    IN  IF Truthy(biomeEquivalent)
        THEN [acc EXCEPT !.compatible =
                 Append(@, [eslint |-> eslintRule, biome |-> biomeEquivalent.str,
                            source |-> source])]
        ELSE [acc EXCEPT !.incompatible = Append(@, eslintRule)]

RECURSIVE analyzeLoop(_, _, _)
analyzeLoop(eslintRules, data, acc) ==
    IF eslintRules = <<>> THEN acc
    ELSE analyzeLoop(Tail(eslintRules), data, analyzeRule(Head(eslintRules), data, acc))

analyzeBiomeCompatibility(eslintRules, data) ==
    LET lists == analyzeLoop(eslintRules, data,
                             [compatible |-> <<>>, incompatible |-> <<>>])
    IN  [compatible |-> lists.compatible,
         incompatible |-> lists.incompatible,
         compatibilityRate |->
             compatibilityRate(Len(lists.compatible), Len(eslintRules))]

(***************************************************************************)
(* commands/analyze.ts: extractEnabledRules                                *)
(***************************************************************************)
\* typeof severity === "number" ? severity > 0 : severity !== "off"
severityEnabled(severity) ==
    IF severity.t = "number" THEN severity.n > 0
    ELSE ~(severity.t = "string" /\ severity.s = "off")

\* the filter callback
isEnabled(value) ==
    IF value.isArray THEN severityEnabled(ElementZero(value.items))
    ELSE severityEnabled(value.items[1])

\* Array.prototype.filter followed by the map to the rule names
RECURSIVE enabledNames(_)
enabledNames(entries) ==
    IF entries = <<>> THEN <<>>
    ELSE (IF isEnabled(entries[1].value) THEN <<entries[1].name>> ELSE <<>>)
         \o enabledNames(Tail(entries))

\* an extractEnabledRules without the final sort
extractEnabledRulesUnsorted(config) ==
    IF ~config.hasRules THEN <<>>
    ELSE enabledNames(config.rules)

\* config.rules is the sequence Object.entries gives: the keys in insertion
\* order, each once
extractEnabledRules(config) ==
    IF ~config.hasRules THEN <<>>
    ELSE Sort(enabledNames(config.rules))

(***************************************************************************)
(* commands/analyze.ts: getESLintConfig and findESLintConfigInParents      *)
(***************************************************************************)
\* path.dirname of an absolute path, a sequence of segments ("/" is <<>>)
pathDirname(dir) == IF dir = <<>> THEN <<>> ELSE SubSeq(dir, 1, Len(dir) - 1)

targetDir == pathDirname(absolutePath)

configFiles ==
    <<"eslint.config.js", "eslint.config.mjs", "eslint.config.cjs", ".eslintrc.json",
      ".eslintrc.js", ".eslintrc.yml", ".eslintrc.yaml", ".eslintrc">>

\* a directory or null
NoDir == [null |-> TRUE, dir |-> <<>>]
Dir(d) == [null |-> FALSE, dir |-> d]

\* the while loop of findESLintConfigInParents; files holds the <<dir, file>>
\* for which existsSync is true
RECURSIVE searchFrom(_, _, _)
searchFrom(currentDir, root, files) ==
    IF currentDir = root THEN NoDir
    ELSE IF \E i \in 1..Len(configFiles) : <<currentDir, configFiles[i]>> \in files
         THEN Dir(currentDir)
    ELSE searchFrom(pathDirname(currentDir), root, files)

findESLintConfigInParents(startDir, files) ==
    searchFrom(startDir, pathDirname(startDir), files)

\* JSON.parse of the text a subprocess printed: it throws unless the text is JSON
JSONparse(text) == [threw |-> ~text.valid, value |-> text.value]

\* an extraction failure that is logged while the process goes on to its end
\* without an exit code
ExtractionFailsNoExit(cause) ==
    /\ errors' = Append(errors, <<"Failed to analyze project",
                                  "Failed to get ESLint config", cause>>)
    /\ exitCode' = exitCode
    /\ pc' = "done"

\* the catch of analyzeProject around an error thrown by getESLintConfig, which
\* its own catch has wrapped: the message is logged and the process exits
ExtractionFails(cause) ==
    /\ errors' = Append(errors, <<"Failed to analyze project",
                                  "Failed to get ESLint config", cause>>)
    /\ exitCode' = <<1>>
    /\ pc' = "done"

\* execSync(eslintCommand, {cwd}): what the subprocess did, recorded
Spawn(mode, cwd, outcome) ==
    spawned' = Append(spawned, [mode |-> mode, cwd |-> cwd, ok |-> outcome.ok,
                                text |-> outcome.text])

(***************************************************************************)
(* The steps of analyzeProject that compute: they are also run on their    *)
(* own, from every input within the bounds.                                *)
(***************************************************************************)
Exited(code) == exitCode = <<code>>

\* analyze.ts: const enabledRules = extractEnabledRules(eslintConfig), then
\* fetchBiomeRules is entered
ExtractRules ==
    /\ pc = "extract"
    /\ enabledRules' = extractEnabledRules(eslintConfig[1])
    /\ allMappings' = <<>>
    /\ allExclusiveRules' = <<>>
    /\ sources' = <<>>
    /\ urlIdx' = 1
    /\ pc' = "fetch"
    /\ UNCHANGED <<pathExists, json, absolutePath, fsConfigs, spawned, output,
                   foundConfig, eslintConfig, fetchLog, biomeData, report, errors,
                   exitCode, stripIn, stripOut, parseIn, parseOut>>

\* analyze.ts: both output branches call analyzeBiomeCompatibility and print
\* its result (as JSON when options.json, as text otherwise); the run then ends
Output ==
    /\ pc = "output"
    /\ report' = <<analyzeBiomeCompatibility(enabledRules, biomeData[1])>>
    /\ exitCode' = <<0>>
    /\ pc' = "done"
    /\ UNCHANGED <<pathExists, json, absolutePath, fsConfigs, spawned, output,
                   foundConfig, eslintConfig, enabledRules, urlIdx, fetchLog,
                   allMappings, allExclusiveRules, sources, biomeData, errors,
                   stripIn, stripOut, parseIn, parseOut>>

\* a call of stripPluginPrefix
Strip ==
    /\ pc = "strip"
    /\ stripOut' = <<stripPluginPrefix(stripIn)>>
    /\ pc' = "stripped"
    /\ UNCHANGED <<pathExists, json, absolutePath, fsConfigs, spawned, output,
                   foundConfig, eslintConfig, enabledRules, urlIdx, fetchLog,
                   allMappings, allExclusiveRules, sources, biomeData, report,
                   errors, exitCode, stripIn, parseIn, parseOut>>

(***************************************************************************)
(* Inputs                                                                  *)
(***************************************************************************)
MaxRules == 2       \* entries of a rules map
MaxEnabled == 2     \* enabled rules given to analyzeBiomeCompatibility
MaxMappings == 2    \* entries of a mapping table
MaxNest == 2        \* prefixes in front of a base name

NoVar == <<"n","o","-","v","a","r">>
Eqeqeq == <<"e","q","e","q","e","q">>
ReactNoVar == <<"r","e","a","c","t","/","n","o","-","v","a","r">>
ImportNoVar == <<"i","m","p","o","r","t","/","n","o","-","v","a","r">>
ReactImportNoVar ==
    <<"r","e","a","c","t","/","i","m","p","o","r","t","/","n","o","-","v","a","r">>
FooNoVar == <<"f","o","o","/","n","o","-","v","a","r">>

\* the sequences over S of length at most n
SeqsUpTo(S, n) == UNION {[1..k -> S] : k \in 0..n}

RECURSIVE SetToSeq(_)
SetToSeq(S) ==
    IF S = {} THEN <<>>
    ELSE LET x == CHOOSE x \in S : TRUE IN <<x>> \o SetToSeq(S \ {x})

Severities ==
    {NumberValue(0), NumberValue(1), NumberValue(2),
     StringValue("off"), StringValue("warn"), StringValue("error")}

RuleValues ==
    {ScalarValue(v) : v \in Severities}
    \cup {ArrayValue(<<v>>) : v \in Severities \ {NumberValue(2)}}
    \cup {ArrayValue(<<NumberValue(2), StringValue("always")>>), ArrayValue(<<>>)}

ConfigRuleNames == {NoVar, Eqeqeq, ReactNoVar, <<"n","o">>}

\* the rules maps: every key once
RulesMaps ==
    {r \in SeqsUpTo([name : ConfigRuleNames, value : RuleValues], MaxRules) :
        \A i, j \in 1..Len(r) : r[i].name = r[j].name => i = j}

NoRulesConfig == [hasRules |-> FALSE, rules |-> <<>>]

Configs == {NoRulesConfig} \cup {[hasRules |-> TRUE, rules |-> r] : r \in RulesMaps}

RuleIds == {NoVar, Eqeqeq, ReactNoVar, ImportNoVar, ReactImportNoVar}

\* what extractEnabledRules can return: sorted, every id once
EnabledLists ==
    {Sort(SetToSeq(S)) : S \in {T \in SUBSET RuleIds : Cardinality(T) <= MaxEnabled}}

MappingEntries ==
    [eslintRule : {NoVar, ReactNoVar, ImportNoVar},
     biomeRule : {<<"n","o","V","a","r">>, <<"u","s","e","C","o","n","s","t">>},
     source : {<<"E","S","L","i","n","t">>, <<"R","e","a","c","t">>}]

MappingTables == SeqsUpTo(MappingEntries, MaxMappings)

RECURSIVE PrefixChains(_)
PrefixChains(n) ==
    IF n = 0 THEN {<<>>}
    ELSE LET shorter == PrefixChains(n - 1)
         IN  shorter \cup
             {p \o c : p \in {prefixes[i] : i \in 1..Len(prefixes)}
                              \cup {<<"f","o","o","/">>},
                       c \in shorter}

StripInputs ==
    {c \o b : c \in PrefixChains(MaxNest), b \in {NoVar, <<>>, <<"r","e","a","c","t">>}}

(***************************************************************************)
(* Specifications of the computing steps alone                             *)
(***************************************************************************)
NoRun ==
    /\ pathExists = TRUE
    /\ json = TRUE
    /\ absolutePath = <<>>
    /\ fsConfigs = {}
    /\ spawned = <<>>
    /\ output = <<>>
    /\ foundConfig = <<>>
    /\ fetchLog = <<>>
    /\ errors = <<>>
    /\ exitCode = <<>>
    /\ report = <<>>

NoFetch ==
    /\ urlIdx = 1
    /\ allMappings = <<>>
    /\ allExclusiveRules = <<>>
    /\ sources = <<>>

InitExtract ==
    /\ pc = "extract"
    /\ eslintConfig \in {<<c>> : c \in Configs}
    /\ enabledRules = <<>>
    /\ biomeData = <<>>
    /\ stripIn = <<>>
    /\ stripOut = <<>>
    /\ parseIn = <<>>
    /\ parseOut = <<>>
    /\ NoRun
    /\ NoFetch

SpecExtract == InitExtract /\ [][ExtractRules]_vars

InitCompat ==
    /\ pc = "output"
    /\ eslintConfig = <<>>
    /\ enabledRules \in EnabledLists
    /\ biomeData \in {<<[mappings |-> m, exclusiveRules |-> <<>>, sources |-> <<>>]>> :
                         m \in MappingTables}
    /\ stripIn = <<>>
    /\ stripOut = <<>>
    /\ parseIn = <<>>
    /\ parseOut = <<>>
    /\ NoRun
    /\ NoFetch

SpecCompat == InitCompat /\ [][Output]_vars

InitStrip ==
    /\ pc = "strip"
    /\ eslintConfig = <<>>
    /\ enabledRules = <<>>
    /\ biomeData = <<>>
    /\ stripIn \in StripInputs
    /\ stripOut = <<>>
    /\ parseIn = <<>>
    /\ parseOut = <<>>
    /\ NoRun
    /\ NoFetch

SpecStrip == InitStrip /\ [][Strip]_vars

(***************************************************************************)
(* The run of analyzeProject                                               *)
(***************************************************************************)
MaxDepth == 3       \* segments of the path argument

SegNames == <<"home", "proj", "src", "lib", "pkg", "app">>

Paths == {SubSeq(SegNames, 1, n) : n \in 0..MaxDepth}

\* the directory dir and its ancestors, the root included
RECURSIVE AncestorChain(_)
AncestorChain(dir) ==
    IF dir = <<>> THEN {<<>>} ELSE {dir} \cup AncestorChain(pathDirname(dir))

\* the file systems: which of the first and the last recognized config file
\* each directory of the chain holds
FileSystems(dir) ==
    SUBSET {<<d, f>> : d \in AncestorChain(dir),
                       f \in {configFiles[1], configFiles[Len(configFiles)]}}

RunConfig ==
    [hasRules |-> TRUE,
     rules |-> << [name |-> ReactNoVar,
                   value |-> ArrayValue(<<NumberValue(2), StringValue("always")>>)],
                  [name |-> NoVar, value |-> ScalarValue(StringValue("error"))],
                  [name |-> Eqeqeq, value |-> ScalarValue(StringValue("off"))] >>]

\* what a subprocess can print: JSON of a config, or text that is not JSON
OutputTexts ==
    {[valid |-> TRUE, value |-> c] : c \in {NoRulesConfig, RunConfig}}
    \cup {[valid |-> FALSE, value |-> NoRulesConfig]}

\* a subprocess exits 0 with its output, or exits non-zero (execSync throws)
ExecOutcomes ==
    {[ok |-> TRUE, text |-> t] : t \in OutputTexts}
    \cup {[ok |-> FALSE, text |-> [valid |-> FALSE, value |-> NoRulesConfig]]}

\* an existence check that logs the missing path and goes on
CheckPathNoExit ==
    /\ pc = "start"
    /\ errors' = IF pathExists THEN errors ELSE Append(errors, <<"File does not exist">>)
    /\ pc' = "flat"
    /\ UNCHANGED <<pathExists, json, absolutePath, fsConfigs, spawned, output,
                   foundConfig, eslintConfig, enabledRules, urlIdx, fetchLog,
                   allMappings, allExclusiveRules, sources, biomeData, report,
                   exitCode, stripIn, stripOut, parseIn, parseOut>>

\* analyze.ts: the existence check of analyzeProject
CheckPath ==
    /\ pc = "start"
    /\ IF ~pathExists
       THEN /\ errors' = Append(errors, <<"File does not exist">>)
            /\ exitCode' = <<1>>
            /\ pc' = "done"
       ELSE /\ pc' = "flat"
            /\ UNCHANGED <<errors, exitCode>>
    /\ UNCHANGED <<pathExists, json, absolutePath, fsConfigs, spawned, output,
                   foundConfig, eslintConfig, enabledRules, urlIdx, fetchLog,
                   allMappings, allExclusiveRules, sources, biomeData, report,
                   stripIn, stripOut, parseIn, parseOut>>

\* getESLintConfig: the first invocation, npx eslint --print-config
ExecFlat ==
    /\ pc = "flat"
    /\ \E outcome \in ExecOutcomes :
        /\ Spawn("flat", targetDir, outcome)
        /\ IF outcome.ok
           THEN output' = <<outcome.text>> /\ pc' = "parse"
           ELSE output' = output /\ pc' = "legacy"
    /\ UNCHANGED <<pathExists, json, absolutePath, fsConfigs, foundConfig,
                   eslintConfig, enabledRules, urlIdx, fetchLog, allMappings,
                   allExclusiveRules, sources, biomeData, report, errors, exitCode,
                   stripIn, stripOut, parseIn, parseOut>>

\* getESLintConfig: the catch of the first invocation, which invokes with
\* ESLINT_USE_FLAT_CONFIG=false
ExecLegacy ==
    /\ pc = "legacy"
    /\ \E outcome \in ExecOutcomes :
        /\ Spawn("legacy", targetDir, outcome)
        /\ IF outcome.ok
           THEN output' = <<outcome.text>> /\ pc' = "parse"
           ELSE output' = output /\ pc' = "parents"
    /\ UNCHANGED <<pathExists, json, absolutePath, fsConfigs, foundConfig,
                   eslintConfig, enabledRules, urlIdx, fetchLog, allMappings,
                   allExclusiveRules, sources, biomeData, report, errors, exitCode,
                   stripIn, stripOut, parseIn, parseOut>>

\* getESLintConfig: the catch of the second invocation, which searches the
\* parent directories and throws when the search finds nothing
SearchParents ==
    /\ pc = "parents"
    /\ \E files \in FileSystems(targetDir) :
        /\ fsConfigs' = files
        /\ foundConfig' = <<findESLintConfigInParents(targetDir, files)>>
        /\ IF findESLintConfigInParents(targetDir, files).null
           THEN ExtractionFails("No ESLint configuration found")
           ELSE pc' = "rerun" /\ UNCHANGED <<errors, exitCode>>
    /\ UNCHANGED <<pathExists, json, absolutePath, spawned, output, eslintConfig,
                   enabledRules, urlIdx, fetchLog, allMappings, allExclusiveRules,
                   sources, biomeData, report, stripIn, stripOut, parseIn, parseOut>>

\* getESLintConfig: the invocation in the directory the search found; an error
\* of it reaches the outer catch
ExecRerun ==
    /\ pc = "rerun"
    /\ \E outcome \in ExecOutcomes :
        /\ Spawn("legacy", foundConfig[1].dir, outcome)
        /\ IF outcome.ok
           THEN /\ output' = <<outcome.text>>
                /\ pc' = "parse"
                /\ UNCHANGED <<errors, exitCode>>
           ELSE /\ output' = output
                /\ ExtractionFails("Command failed")
    /\ UNCHANGED <<pathExists, json, absolutePath, fsConfigs, foundConfig,
                   eslintConfig, enabledRules, urlIdx, fetchLog, allMappings,
                   allExclusiveRules, sources, biomeData, report, stripIn, stripOut, parseIn, parseOut>>

\* getESLintConfig: return JSON.parse(output), inside the outer try only
ParseOutput ==
    /\ pc = "parse"
    /\ IF JSONparse(output[1]).threw
       THEN /\ ExtractionFails("Unexpected token")
            /\ UNCHANGED eslintConfig
       ELSE /\ eslintConfig' = <<JSONparse(output[1]).value>>
            /\ pc' = "extract"
            /\ UNCHANGED <<errors, exitCode>>
    /\ UNCHANGED <<pathExists, json, absolutePath, fsConfigs, spawned, output,
                   foundConfig, enabledRules, urlIdx, fetchLog, allMappings,
                   allExclusiveRules, sources, biomeData, report, stripIn, stripOut, parseIn, parseOut>>

(***************************************************************************)
(* commands/biome.ts: fetchBiomeRules                                      *)
(***************************************************************************)
BIOME_SOURCES_URLS ==
    <<"https://raw.githubusercontent.com/biomejs/website/refs/heads/main/src/content/docs/linter/css/sources.mdx",
      "https://raw.githubusercontent.com/biomejs/website/refs/heads/main/src/content/docs/linter/javascript/sources.mdx",
      "https://raw.githubusercontent.com/biomejs/website/refs/heads/main/src/content/docs/linter/json/sources.mdx">>

\* the lines of a document, joined by newlines
RECURSIVE JoinLines(_)
JoinLines(lines) ==
    IF lines = <<>> THEN <<>>
    ELSE IF Len(lines) = 1 THEN lines[1]
    ELSE lines[1] \o <<NL>> \o JoinLines(Tail(lines))

TableRule == <<"|"," ","-","-","-","-"," ","|"," ","-","-","-","-"," ","|">>

\* | [a](u) | [b](u) |
Row(a, b) ==
    <<"|"," ","[">> \o a \o <<"]","(","u",")"," ","|"," ","[">> \o b
    \o <<"]","(","u",")"," ","|">>

\* ### JS, a table of one row, and a list of exclusive rules
DocJS ==
    JoinLines(<< <<"#","#","#"," ","J","S">>,
                 TableRule,
                 Row(NoVar, <<"n","o","V","a","r">>),
                 <<>>,
                 <<"#","#"," ","B","i","o","m","e"," ","e","x","c","l","u","s","i","v","e",
                   " ","r","u","l","e","s">>,
                 <<"-"," ","[","n","o","F","o","o","]","(","u",")">> >>)

\* a table without a heading, its header row restated after the rule, a row,
\* a line of text that closes the table and a row that is outside it
DocReact ==
    JoinLines(<< TableRule,
                 Row(<<"E","S","L","i","n","t"," ">> \o RulesName,
                     <<"B","i","o","m","e"," ">> \o RulesName),
                 Row(ReactNoVar, <<"u","s","e","C","o","n","s","t">>),
                 <<"t","e","x","t">>,
                 Row(Eqeqeq, <<"n","o","V","a","r">>) >>)

Documents == {DocJS, DocReact}

\* fetch(url) rejects, or resolves to a response that is ok or not, with a body
FetchOutcomes ==
    {[kind |-> "reject", content |-> <<>>], [kind |-> "notok", content |-> <<>>]}
    \cup {[kind |-> "ok", content |-> d] : d \in Documents}

\* one iteration of the loop over BIOME_SOURCES_URLS. A rejected fetch leaves
\* the loop for the catch, whose error analyzeProject logs before it exits.
FetchUrl ==
    /\ pc = "fetch"
    /\ urlIdx <= Len(BIOME_SOURCES_URLS)
    /\ \E outcome \in FetchOutcomes :
        LET url == BIOME_SOURCES_URLS[urlIdx]
            parsedData == parseBiomeMarkdown(outcome.content, url)
        IN  /\ fetchLog' = Append(fetchLog, [url |-> url, kind |-> outcome.kind,
                                             content |-> outcome.content])
            /\ IF outcome.kind = "reject"
               THEN /\ errors' = Append(errors, <<"Failed to analyze project",
                                                  "Failed to fetch Biome rules",
                                                  "fetch failed">>)
                    /\ exitCode' = <<1>>
                    /\ pc' = "done"
                    /\ UNCHANGED <<urlIdx, allMappings, allExclusiveRules, sources>>
               ELSE IF outcome.kind = "notok"
               THEN /\ errors' = Append(errors, <<"Failed to fetch", url>>)
                    /\ urlIdx' = urlIdx + 1
                    /\ UNCHANGED <<pc, exitCode, allMappings, allExclusiveRules, sources>>
               ELSE /\ allMappings' = allMappings \o parsedData.mappings
                    /\ allExclusiveRules' = allExclusiveRules \o parsedData.exclusiveRules
                    /\ sources' = Append(sources, url)
                    /\ urlIdx' = urlIdx + 1
                    /\ UNCHANGED <<pc, exitCode, errors>>
    /\ UNCHANGED <<pathExists, json, absolutePath, fsConfigs, spawned, output,
                   foundConfig, eslintConfig, enabledRules, biomeData, report,
                   stripIn, stripOut, parseIn, parseOut>>

\* the return of fetchBiomeRules after the loop
FetchReturn ==
    /\ pc = "fetch"
    /\ urlIdx > Len(BIOME_SOURCES_URLS)
    /\ biomeData' = <<[mappings |-> allMappings,
                       exclusiveRules |-> allExclusiveRules,
                       sources |-> sources]>>
    /\ pc' = "output"
    /\ UNCHANGED <<pathExists, json, absolutePath, fsConfigs, spawned, output,
                   foundConfig, eslintConfig, enabledRules, urlIdx, fetchLog,
                   allMappings, allExclusiveRules, sources, report, errors,
                   exitCode, stripIn, stripOut, parseIn, parseOut>>

\* a call of parseBiomeMarkdown, as fetchBiomeRules makes it on a response body
Parse ==
    /\ pc = "parse markdown"
    /\ parseOut' = <<parseBiomeMarkdown(parseIn, BIOME_SOURCES_URLS[1])>>
    /\ pc' = "parsed"
    /\ UNCHANGED <<pathExists, json, absolutePath, fsConfigs, spawned, output,
                   foundConfig, eslintConfig, enabledRules, urlIdx, fetchLog,
                   allMappings, allExclusiveRules, sources, biomeData, report,
                   errors, exitCode, stripIn, stripOut, parseIn>>

(***************************************************************************)
(* parseBiomeMarkdown alone, on every document of a few lines              *)
(***************************************************************************)
MaxLines == 3       \* lines of a document

HeadingJS == <<"#","#","#"," ","J","S">>
HeadingReact == <<"#","#","#"," ","R","e","a","c","t">>
ExclusiveHeading ==
    <<"#","#"," ","B","i","o","m","e"," ","e","x","c","l","u","s","i","v","e",
      " ","r","u","l","e","s">>
ListItem == <<"-"," ","[","n","o","F","o","o","]","(","u",")">>
TextLine == <<"t","e","x","t">>
RowNoVar == Row(NoVar, <<"n","o","V","a","r">>)
RowReact == Row(ReactNoVar, <<"u","s","e","C","o","n","s","t">>)
\* the header of a table, restated under its rule
RestatedHeader ==
    Row(<<"E","S","L","i","n","t"," ">> \o RulesName, <<"B","i","o","m","e"," ">> \o RulesName)
\* a row whose second column is no link: | [no-var](u) | noVar |
MalformedRow ==
    <<"|"," ","[">> \o NoVar \o <<"]","(","u",")"," ","|"," ","n","o","V","a","r"," ","|">>

DocumentLines ==
    {HeadingJS, HeadingReact, TableRule, RowNoVar, RowReact, RestatedHeader,
     MalformedRow, <<>>, TextLine, ExclusiveHeading, ListItem}

InitParse ==
    /\ pc = "parse markdown"
    /\ eslintConfig = <<>>
    /\ enabledRules = <<>>
    /\ biomeData = <<>>
    /\ stripIn = <<>>
    /\ stripOut = <<>>
    /\ parseIn \in {JoinLines(l) : l \in SeqsUpTo(DocumentLines, MaxLines) \ {<<>>}}
    /\ parseOut = <<>>
    /\ NoRun
    /\ NoFetch

SpecParse == InitParse /\ [][Parse]_vars

Init ==
    /\ pc = "start"
    /\ absolutePath \in Paths
    /\ pathExists \in BOOLEAN
    /\ json \in BOOLEAN
    /\ fsConfigs = {}
    /\ spawned = <<>>
    /\ output = <<>>
    /\ foundConfig = <<>>
    /\ eslintConfig = <<>>
    /\ enabledRules = <<>>
    /\ fetchLog = <<>>
    /\ biomeData = <<>>
    /\ report = <<>>
    /\ errors = <<>>
    /\ exitCode = <<>>
    /\ stripIn = <<>>
    /\ stripOut = <<>>
    /\ parseIn = <<>>
    /\ parseOut = <<>>
    /\ NoFetch

Next ==
    \/ CheckPath
    \/ ExecFlat
    \/ ExecLegacy
    \/ SearchParents
    \/ ExecRerun
    \/ ParseOutput
    \/ ExtractRules
    \/ FetchUrl
    \/ FetchReturn
    \/ Output

Spec == Init /\ [][Next]_vars

(***************************************************************************)
(* Properties                                                              *)
(***************************************************************************)
Range(l) == {l[i] : i \in 1..Len(l)}

StrictlyAscending(l) == \A i \in 1..(Len(l) - 1) : StrLess(l[i], l[i + 1])

\* every fetch of the run so far got a response that is not ok, and every url
\* of the list was fetched
AllSourcesNotOk ==
    /\ Len(fetchLog) = Len(BIOME_SOURCES_URLS)
    /\ \A i \in 1..Len(fetchLog) : fetchLog[i].kind = "notok"

\* C1: when every remote source answers with a non-success status, no report is
\* emitted and the run does not end with exit code 0.
C1_AllSourcesFailedAborts ==
    AllSourcesNotOk => (report = <<>> /\ ~Exited(0))

\* the entries parsed from the sources fetched successfully, in the order of
\* the fetches
RECURSIVE ParsedFromOk(_)
ParsedFromOk(log) ==
    IF log = <<>> THEN <<>>
    ELSE (IF log[1].kind = "ok"
          THEN parseBiomeMarkdown(log[1].content, log[1].url).mappings
          ELSE <<>>)
         \o ParsedFromOk(Tail(log))

\* C2: once a source has been fetched successfully, the failure of another
\* source's fetch does not abort the run, and what fetchBiomeRules returns holds
\* the entries parsed from the successful sources, in order, and their urls.
C2_PartialFailureTolerated ==
    (\E i \in 1..Len(fetchLog) : fetchLog[i].kind = "ok") =>
        /\ ~Exited(1)
        /\ biomeData # <<>> =>
            /\ biomeData[1].mappings = ParsedFromOk(fetchLog)
            /\ biomeData[1].sources =
                   SelectSeq([i \in 1..Len(fetchLog) |-> fetchLog[i].url],
                             LAMBDA u : \E i \in 1..Len(fetchLog) :
                                            fetchLog[i].url = u /\ fetchLog[i].kind = "ok")

\* C3: when the path does not exist, no subprocess is spawned and no fetch is
\* started at any point of the run, and the existence check ends the run with
\* exit code 1.
C3_MissingPathExitsBeforeAnyWork ==
    ~pathExists =>
        /\ spawned = <<>>
        /\ fetchLog = <<>>
        /\ pc # "start" => (pc = "done" /\ Exited(1))

\* the run of a missing path, ended
C3_Witness ==
    /\ ~pathExists
    /\ pc = "done"
    /\ Exited(1)
    /\ errors = << <<"File does not exist">> >>

\* the first invocation failed: it exited non-zero, or printed what is not JSON
FlatFailed ==
    /\ Len(spawned) >= 1
    /\ spawned[1].mode = "flat"
    /\ ~spawned[1].ok \/ ~spawned[1].text.valid

\* C4: when the flat invocation has failed, by its exit status or by output that
\* is not JSON, no error is surfaced before the legacy invocation has been made.
C4_FlatFailureRetriedLegacy ==
    (FlatFailed /\ errors # <<>>) =>
        (Len(spawned) >= 2 /\ spawned[2].mode = "legacy")

\* the directories of the chain of targetDir below the root that hold a
\* recognized config file
ConfigDirs ==
    {d \in AncestorChain(targetDir) \ {<<>>} :
        \E i \in 1..Len(configFiles) : <<d, configFiles[i]>> \in fsConfigs}

\* C5: when a directory on the chain from the target directory upwards holds a
\* recognized config file, the search returns the nearest such directory and
\* 'No ESLint configuration found' is not raised.
C5_NearestAncestorConfigFound ==
    (foundConfig # <<>> /\ ConfigDirs # {}) =>
        /\ foundConfig[1] =
               Dir(CHOOSE d \in ConfigDirs : \A e \in ConfigDirs : Len(e) <= Len(d))
        /\ \A i \in 1..Len(errors) :
               errors[i][Len(errors[i])] # "No ESLint configuration found"

\* the lines of the parsed document, each without the white space around it
InputLines == [i \in 1..Len(Split(parseIn, NL)) |-> Trim(Split(parseIn, NL)[i])]

IsHeading(line) == StartsWith(line, <<"#","#","#"," ">>)

\* a non-empty line without "|"
IsPlainLine(line) == line # <<>> /\ ~Includes(line, <<"|">>)

\* a table region is open at line i: a line holding the table rule came before,
\* and since then neither a heading nor a non-empty line without "|"
RegionOpenAt(lines, i) ==
    \E j \in 1..(i - 1) :
        /\ Includes(lines[j], TableRule)
        /\ \A k \in (j + 1)..(i - 1) : ~IsHeading(lines[k]) /\ ~IsPlainLine(lines[k])

\* the columns of a row: what stands between the bars, the empty pieces left out
ColumnsOf(line) ==
    SelectSeq([k \in 1..Len(Split(line, "|")) |-> Trim(Split(line, "|")[k])],
              LAMBDA col : col # <<>>)

\* a column that is a link [name](url)
IsLink(col) ==
    /\ Len(col) >= 5
    /\ col[1] = "["
    /\ col[2] # "]"
    /\ col[Len(col)] = ")"
    /\ \E q \in 3..(Len(col) - 2) : col[q] = "]" /\ col[q + 1] = "("

\* the name of a link: what stands between "[" and the first "]"
LinkName(col) == SubSeq(col, 2, Least({q \in 1..Len(col) : col[q] = "]"}) - 1)

\* a row of two links that does not restate the header of the table
IsRuleRow(line) ==
    /\ Len(ColumnsOf(line)) >= 2
    /\ IsLink(ColumnsOf(line)[1])
    /\ IsLink(ColumnsOf(line)[2])
    /\ ~Includes(LinkName(ColumnsOf(line)[1]), RulesName)
    /\ ~Includes(LinkName(ColumnsOf(line)[2]), RulesName)

\* the label of line i: the text of the last heading before it (ESLint, the
\* label of the code, where there is none)
LabelAt(lines, i) ==
    LET headings == {h \in 1..(i - 1) : IsHeading(lines[h])}
    IN  IF headings = {} THEN <<"E","S","L","i","n","t">>
        ELSE Trim(Substring(lines[CHOOSE h \in headings : \A g \in headings : g <= h], 4))

\* the mappings of lines[i], lines[i + 1], ...: one for every rule row at which
\* a table region is open, none for any other line
RECURSIVE MappingsFrom(_, _)
MappingsFrom(lines, i) ==
    IF i > Len(lines) THEN <<>>
    ELSE (IF RegionOpenAt(lines, i) /\ IsRuleRow(lines[i])
          THEN << [eslintRule |-> LinkName(ColumnsOf(lines[i])[1]),
                   biomeRule |-> LinkName(ColumnsOf(lines[i])[2]),
                   source |-> LabelAt(lines, i)] >>
          ELSE <<>>)
         \o MappingsFrom(lines, i + 1)

\* C11: parseBiomeMarkdown returns, and its mappings are, in order, one mapping
\* for every row of two links inside an open table region, from the first name
\* to the second under the last heading, and nothing for any other line: a line
\* outside an open region, a restated header, a malformed row.
C11_MappingsOnlyInOpenRegion ==
    (pc = "parsed") =>
        /\ parseOut # <<>>
        /\ parseOut[1].mappings = MappingsFrom(InputLines, 1)

\* the values the rule documentation calls disabled and enabled
OffSeverities == {NumberValue(0), StringValue("off")}
OnSeverities ==
    {NumberValue(1), NumberValue(2), StringValue("warn"), StringValue("error")}

HasSeverityIn(value, S) ==
    IF value.isArray THEN value.items # <<>> /\ value.items[1] \in S
    ELSE value.items[1] \in S

\* C6: extractEnabledRules returns a strictly ascending sequence of rule ids of
\* the rules map, holding every rule whose severity is 1, 2, "warn" or "error"
\* (given directly or as the first element of an array) and no rule whose
\* severity is 0 or "off"; a config without a rules map gives the empty sequence.
C6_EnabledRulesSortedAndExact ==
    (pc = "fetch" /\ eslintConfig # <<>>) =>
        LET config == eslintConfig[1]
            entries == Range(config.rules)
        IN  /\ ~config.hasRules => enabledRules = <<>>
            /\ StrictlyAscending(enabledRules)
            /\ Range(enabledRules) \subseteq {e.name : e \in entries}
            /\ \A e \in entries :
                /\ HasSeverityIn(e.value, OffSeverities) => e.name \notin Range(enabledRules)
                /\ HasSeverityIn(e.value, OnSeverities) => e.name \in Range(enabledRules)

\* an enabled rule entered after a disabled one and before a rule that sorts
\* in front of it: the filter and the sort both had something to do
C6_Witness ==
    /\ pc = "fetch"
    /\ eslintConfig # <<>>
    /\ Len(eslintConfig[1].rules) = 2
    /\ eslintConfig[1].rules[1].name = NoVar
    /\ eslintConfig[1].rules[1].value = ArrayValue(<<NumberValue(2), StringValue("always")>>)
    /\ eslintConfig[1].rules[2].name = Eqeqeq
    /\ eslintConfig[1].rules[2].value = ScalarValue(StringValue("warn"))
    /\ enabledRules = <<Eqeqeq, NoVar>>

\* the ids that rule id r is with one known plugin prefix removed from its front
OnceStripped(r) ==
    {Substring(r, Len(prefixes[i])) : i \in {j \in 1..Len(prefixes) : StartsWith(r, prefixes[j])}}

ExactMatches(r, table) == {i \in 1..Len(table) : table[i].eslintRule = r}
LooseMatches(r, table) == {i \in 1..Len(table) : table[i].eslintRule \in OnceStripped(r)}

\* the target the matching rules give rule id r in the table
ExpectedEquivalent(r, table) ==
    IF ExactMatches(r, table) # {} THEN Some(table[Least(ExactMatches(r, table))].biomeRule)
    ELSE IF LooseMatches(r, table) # {}
         THEN Some(table[Least(LooseMatches(r, table))].biomeRule)
    ELSE Null

\* C7: for every enabled rule, findBiomeEquivalent gives the target of the first
\* entry that matches the id exactly, else of the first entry that matches the
\* id with one known prefix stripped, else nothing; the report lists the rule as
\* compatible with that target, or as incompatible when there is none.
C7_FirstExactThenStripped ==
    (pc = "done" /\ report # <<>>) =>
        LET table == biomeData[1].mappings
            rep == report[1]
        IN  \A r \in Range(enabledRules) :
                LET want == ExpectedEquivalent(r, table)
                IN  /\ findBiomeEquivalent(r, biomeData[1]) = want
                    /\ want.null =>
                        /\ r \in Range(rep.incompatible)
                        /\ \A c \in Range(rep.compatible) : c.eslint # r
                    /\ ~want.null =>
                        /\ r \notin Range(rep.incompatible)
                        /\ \E c \in Range(rep.compatible) : c.eslint = r
                        /\ \A c \in Range(rep.compatible) :
                               c.eslint = r => c.biome = want.str

\* a table whose first entry matches the rule only after stripping and whose
\* second matches it exactly, with another target: the exact match was reported
C7_Witness ==
    /\ pc = "done"
    /\ report # <<>>
    /\ enabledRules = <<ImportNoVar, ReactNoVar>>
    /\ Len(biomeData[1].mappings) = 2
    /\ biomeData[1].mappings[1].eslintRule = NoVar
    /\ biomeData[1].mappings[2].eslintRule = ReactNoVar
    /\ biomeData[1].mappings[1].biomeRule # biomeData[1].mappings[2].biomeRule
    /\ Len(report[1].compatible) = 2
    /\ report[1].compatible[1].biome = biomeData[1].mappings[1].biomeRule
    /\ report[1].compatible[2].biome = biomeData[1].mappings[2].biomeRule

\* C8: every compatible entry of the report comes from one mapping entry: some
\* entry of the table matches the reported rule (exactly or stripped) and holds
\* both the reported target and the reported category.
C8_CategoryFromMatchedEntry ==
    (pc = "done" /\ report # <<>>) =>
        \A c \in Range(report[1].compatible) :
            \E m \in Range(biomeData[1].mappings) :
                /\ m.eslintRule = c.eslint \/ m.eslintRule \in OnceStripped(c.eslint)
                /\ m.biomeRule = c.biome
                /\ m.source = c.source

\* C9: stripPluginPrefix returns the id without the first known prefix it starts
\* with, removed once from the front, and the id itself when it starts with
\* none; what follows the removed prefix is returned as it is.
C9_StripsAtMostOnePrefix ==
    (pc = "stripped") =>
        LET matching == {i \in 1..Len(prefixes) : StartsWith(stripIn, prefixes[i])}
        IN  IF matching = {} THEN stripOut[1] = stripIn
            ELSE stripIn = prefixes[Least(matching)] \o stripOut[1]

\* an id with two known prefixes in front: the result still starts with one
C9_Witness ==
    /\ pc = "stripped"
    /\ stripIn = ReactImportNoVar
    /\ stripOut = <<ImportNoVar>>

\* C10: compatible and incompatible rules add up to the enabled rules, and the
\* rate is 0 for an empty rule list and compatible / enabled * 100 otherwise,
\* so within 0 and 100.
C10_RateIsPercentageOfEnabled ==
    (pc = "done" /\ report # <<>>) =>
        LET rep == report[1]
            rate == rep.compatibilityRate
            n == Len(enabledRules)
        IN  /\ Len(rep.compatible) + Len(rep.incompatible) = n
            /\ rate.den > 0
            /\ n = 0 => rate.num = 0
            /\ n > 0 => rate.num * n = Len(rep.compatible) * 100 * rate.den
            /\ 0 <= rate.num
            /\ rate.num <= 100 * rate.den

\* two enabled rules, one with an equivalent: the rate is 50
C10_Witness ==
    /\ pc = "done"
    /\ report # <<>>
    /\ Len(enabledRules) = 2
    /\ Len(report[1].compatible) = 1
    /\ Len(report[1].incompatible) = 1
    /\ report[1].compatibilityRate.num = 50 * report[1].compatibilityRate.den

(***************************************************************************)
(* The print-config invocations of getESLintConfig, read from the log of   *)
(* subprocesses.                                                           *)
(***************************************************************************)
\* the positions of the run at which getESLintConfig is still between tiers
BetweenTiers == {"legacy", "parents", "rerun"}

\* the i-th invocation is the one its tier prescribes: flat and legacy in the
\* directory of the target, the third in the directory the search found
TierOf(i) ==
    IF i = 1 THEN spawned[1].mode = "flat" /\ spawned[1].cwd = targetDir
    ELSE IF i = 2 THEN spawned[2].mode = "legacy" /\ spawned[2].cwd = targetDir
    ELSE /\ spawned[3].mode = "legacy"
         /\ foundConfig # <<>>
         /\ ~foundConfig[1].null
         /\ spawned[3].cwd = foundConfig[1].dir

\* C12: in every run at most three print-config invocations are made, in the
\* order flat, legacy, rooted at the directory the ancestor search found; an
\* invocation is made only after every earlier one has failed, a successful
\* invocation is the last one, and once the last invocation made has failed
\* and getESLintConfig has returned, the run has ended with exit code 1 and
\* one logged error that wraps the extraction failure, with no fetch started.
C12_ThreeTierFallback ==
    /\ Len(spawned) <= 3
    /\ \A i \in 1..Len(spawned) :
        /\ TierOf(i)
        /\ \A j \in 1..(i - 1) : ~spawned[j].ok
        /\ spawned[i].ok => i = Len(spawned)
    /\ (/\ spawned # <<>>
        /\ ~spawned[Len(spawned)].ok
        /\ pc \notin BetweenTiers)
       => /\ pc = "done"
          /\ Exited(1)
          /\ Len(errors) = 1
          /\ errors[1][1] = "Failed to analyze project"
          /\ errors[1][2] = "Failed to get ESLint config"
          /\ fetchLog = <<>>

\* all three tiers were attempted and the third failed
C12_Witness ==
    /\ pc = "done"
    /\ Len(spawned) = 3
    /\ ~spawned[3].ok
    /\ Exited(1)

====
